---- MODULE Spec2Model ----
(***************************************************************************)
(* State-machine model of the documentation crawler                        *)
(* (src/src/crawler.py, src/src/helper.py).                                *)
(*                                                                         *)
(* Strings are sequences of symbols: a symbol is a separator character     *)
(* (":", "/", ".", "_") or a whole word.  Python dicts are functions from  *)
(* key strings to values, {} is the function with the empty domain, and    *)
(* Python's None is the value None.  HTTP status codes are kept as the     *)
(* strings of their digits so that they can share a field with None.       *)
(***************************************************************************)
EXTENDS Naturals, Sequences, FiniteSets, TLC

VARIABLES
    sem,                \* free permits of the asyncio.Semaphore of one call
    tasks,              \* the burst_fetch coroutines of one get_doc_by_service call
    call,               \* "idle" | "running" | "returned": get_doc_by_service
    done,               \* the set of done tasks returned by get_doc_by_service
    sitemap_urls,       \* argument of get_all_docs
    idx,                \* position of the for loop of get_all_docs in sitemap_urls
    dpc,                \* where get_all_docs stands
    data_list,          \* raw fetch results accumulated by get_all_docs
    filtered_data_list, \* the value get_all_docs returns (None before it returns)
    fetch_log,          \* history: every finished fetch, what the origin answered and what it returned
    invoked,            \* history: the loop positions for which get_doc_by_service was called
    last_get,           \* history: how the latest GET of a service sitemap ended, and at which loop position
    mpc,                \* where the run of crawler.py stands (module import, main)
    config,             \* os.environ as crawler.py reads it: BUCKET and PREFIX
    uploads,            \* history: the calls of upload_rawdata_to_s3 and how the storage answered
    ret,                \* what the entry point returned to its caller (Unbound before it returns)
    attempts,           \* the attempts of one GET over the retrying session, each with its outcome
    pure                \* the argument and the results of a call of a helper function

vars == <<sem, tasks, call, done, sitemap_urls, idx, dpc,
          data_list, filtered_data_list, fetch_log, invoked, last_get,
          mpc, config, uploads, ret, attempts, pure>>

driverVars ==
    <<sitemap_urls, idx, dpc, data_list, filtered_data_list, invoked, last_get>>

\* What get_all_docs and the fetches leave alone
outerVars == <<mpc, config, uploads, ret, attempts, pure>>

\* ------------------------------------------------------------------ bounds

MaxBatch == 3       \* URLs handed to one get_doc_by_service call (SpecFetch)
SEMAPHORE == 2      \* crawler.py:37: the capacity configured (30 when not set)
NumServices == 2    \* service sitemaps listed by the root sitemap
MaxDocs == 2        \* page URLs fetched in one run, all services together
MaxLen == 4         \* characters of a URL handed to url_to_path
MaxList == 3        \* fetch results handed to one call of filter_data

\* ------------------------------------------------------------------ values

None == "None"
Unbound == "<unbound>"          \* a local variable that was never assigned
EmptyDict == [k \in {} |-> None]
NoResponse == [k \in {} |-> None]  \* the local response before it is assigned

\* ------------------------------------------------------------------ strings

\* str.replace(old, new): leftmost, non-overlapping occurrences.
RECURSIVE Replace(_, _, _)
Replace(s, old, new) ==
    IF Len(s) < Len(old) THEN s
    ELSE IF SubSeq(s, 1, Len(old)) = old
         THEN new \o Replace(SubSeq(s, Len(old) + 1, Len(s)), old, new)
         ELSE <<Head(s)>> \o Replace(Tail(s), old, new)

\* pat in s
Contains(s, pat) ==
    \E i \in 1..(Len(s) + 1 - Len(pat)) : SubSeq(s, i, i + Len(pat) - 1) = pat

\* str.lower(), word by word
LowerWord(w) ==
    CASE w = "APIReference" -> "apireference"
      [] w = "AWSAndroidSDK" -> "awsandroidsdk"
      [] w = "AWSiOSSDK" -> "awsiossdk"
      [] w = "AWSJavaScriptSDK" -> "awsjavascriptsdk"
      [] w = "AWSJavaSDK" -> "awsjavasdk"
      [] w = "CLI" -> "cli"
      [] w = "Code-Samples" -> "code-samples"
      [] w = "SDK-FOR-JAVA" -> "sdk-for-java"
      [] OTHER -> w

Lower(s) == [i \in 1..Len(s) |-> LowerWord(s[i])]

DocsHost == <<"docs", ".", "aws", ".", "amazon", ".", "com">>

\* https://docs.aws.amazon.com/<path>
DocsUrl(path) == <<"https", ":", "/", "/">> \o DocsHost \o <<"/">> \o path

PageUrl(i) == DocsUrl(<<"ec2", "/", ToString(i)>>)

\* ------------------------------------------------------------------ helper.py

\* helper.py:27-31
url_to_path(url) ==
    Replace(Replace(Replace(url, <<":", "/", "/">>, <<"_", "_", "_">>),
                    <<".">>, <<"_", "_">>),
            <<"/">>, <<"_">>)

\* path_to_url with the targets of the last two replacements swapped
path_to_url_swapped(path) ==
    Replace(Replace(Replace(path, <<"_", "_", "_">>, <<":", "/", "/">>),
                    <<"_", "_">>, <<"/">>),
            <<"_">>, <<".">>)

\* helper.py:34-38
path_to_url(path) ==
    Replace(Replace(Replace(path, <<"_", "_", "_">>, <<":", "/", "/">>),
                    <<"_", "_">>, <<".">>),
            <<"_">>, <<"/">>)

\* helper.py to_isoformat: strptime raises ValueError on any other shape
to_isoformat(date_str) ==
    CASE date_str = "Sat, 27 Jun 2020 02:00:18 GMT" -> "2020-06-27T02:00:18"
      [] OTHER -> Unbound

\* ------------------------------------------------------------------ the origin

Undecodable == "<bytes that are not utf-8>"
GoodHeaders == [k \in {"Last-Modified", "Etag"} |->
                  IF k = "Etag" THEN "\"e1\"" ELSE "Sat, 27 Jun 2020 02:00:18 GMT"]

Resp(status, headers, body) == [status |-> status, headers |-> headers, body |-> body]

HtmlPage == "<title>Guide</title><meta name=product content=S3>  Hello \n World "
HtmlNotFound == "<title>Not Found</title>"

\* What a GET of a page can answer (a raised exception is a separate outcome).
Responses ==
    { Resp("200", GoodHeaders, HtmlPage),
      Resp("200", [k \in {"Etag"} |-> "\"e1\""], HtmlPage),
      Resp("200", [GoodHeaders EXCEPT !["Last-Modified"] = "yesterday"], HtmlPage),
      Resp("200", GoodHeaders, Undecodable),
      Resp("404", GoodHeaders, HtmlNotFound) }

Now == "2020-06-28T00:00:00+00:00"

\* helper.py:61-87
ng_list ==
    << "aws-sdk-php", "AWSAndroidSDK", "AWSiOSSDK", "AWSJavaScriptSDK", "AWSJavaSDK",
       "awssdkrubyrecord", "encryption-sdk", "mobile-sdk", "pythonsdk", "powershell",
       "sdk-for-android", "sdk-for-cpp", "sdk-for-go", "sdk-for-ios", "sdk-for-java",
       "sdk-for-javascript", "sdk-for-net", "sdk-for-php", "sdk-for-php1", "sdk-for-ruby",
       "sdk-for-unity", "sdkfornet", "sdkfornet1", "xray-sdk-for-java", "code-samples" >>

\* helper.py:57-93
is_ok_url(url) == \A k \in 1..Len(ng_list) : ~Contains(url, <<ng_list[k]>>)

\* helper.py:96-125 _parse_html raises on None (lxml refuses it), on bytes that
\* were never decoded and on a document without a title element (cssselect(...)[0]).
ParseRaises(html) == html \notin {HtmlPage, HtmlNotFound}

\* helper.py:96-125 _parse_html, by its value on the pages the origin serves;
\* on anything else it raises, and what it would have returned stays unbound
ParseHtml(html) ==
    CASE html = HtmlPage ->
            [title |-> "Guide", product |-> "S3", guide |-> None, content |-> "HelloWorld"]
      [] html = HtmlNotFound ->
            [title |-> "Not Found", product |-> None, guide |-> None, content |-> "Not Found"]
      [] OTHER ->
            [title |-> Unbound, product |-> Unbound, guide |-> Unbound, content |-> Unbound]

\* The URL filter without url.lower()
UrlFilteredCaseSensitive(url) ==
    \/ Contains(url, <<"apireference">>)
    \/ Contains(url, <<"/", "cli", "/">>)
    \/ Contains(url, <<"/", "code-samples", "/">>)

\* helper.py:146-154: the URL filter of filter_data
UrlFiltered(url) ==
    \/ Contains(Lower(url), <<"apireference">>)
    \/ Contains(Lower(url), <<"/", "cli", "/">>)
    \/ Contains(Lower(url), <<"/", "code-samples", "/">>)

\* helper.py:156-183: the keys the try block reads from data
RecordKeys == {"html", "html_ja", "crawled_at", "last_modified", "last_modified_ja"}

\* helper.py:160-178
Record(data) ==
    [ crawled_at |-> data["crawled_at"],
      url |-> data["url"],
      last_modified |-> data["last_modified"],
      product |-> ParseHtml(data["html"]).product,
      guide |-> ParseHtml(data["html"]).guide,
      title |-> ParseHtml(data["html"]).title,
      content |-> ParseHtml(data["html"]).content,
      raw_html |-> data["html"],
      url_ja |-> data["url_ja"],
      last_modified_ja |-> data["last_modified_ja"],
      product_ja |-> ParseHtml(data["html_ja"]).product,
      guide_ja |-> ParseHtml(data["html_ja"]).guide,
      title_ja |-> ParseHtml(data["html_ja"]).title,
      content_ja |-> ParseHtml(data["html_ja"]).content,
      raw_html_ja |-> data["html_ja"] ]

\* filter_data that builds the record without parsing the two documents first
KeptWithoutParsing(data) ==
    /\ {"url", "url_ja"} \subseteq DOMAIN data
    /\ ~UrlFiltered(data["url"])
    /\ RecordKeys \subseteq DOMAIN data

\* helper.py:134-183: whether one element of data_list yields a record
Kept(data) ==
    /\ {"url", "url_ja"} \subseteq DOMAIN data
    /\ ~UrlFiltered(data["url"])
    /\ RecordKeys \subseteq DOMAIN data
    /\ ~ParseRaises(data["html"])
    /\ ~ParseRaises(data["html_ja"])

\* helper.py:128-185
RECURSIVE filter_data(_)
filter_data(dl) ==
    IF dl = <<>> THEN <<>>
    ELSE IF Kept(Head(dl)) THEN <<Record(Head(dl))>> \o filter_data(Tail(dl))
         ELSE filter_data(Tail(dl))

\* ------------------------------------------------------------------ crawler.py fetch

NoExc == "no exception"

\* The first exception raised while one side's entries of the dict display are
\* evaluated: headers["Last-Modified"], to_isoformat(...), headers["Etag"], text("utf-8").
SideExc(r) ==
    IF "Last-Modified" \notin DOMAIN r.headers THEN "KeyError: 'Last-Modified'"
    ELSE IF to_isoformat(r.headers["Last-Modified"]) = Unbound THEN "ValueError: time data"
    ELSE IF "Etag" \notin DOMAIN r.headers THEN "KeyError: 'Etag'"
    ELSE IF r.body = Undecodable THEN "UnicodeDecodeError"
    ELSE NoExc

BuildExc(response, response_ja) ==
    IF SideExc(response) # NoExc THEN SideExc(response) ELSE SideExc(response_ja)

\* crawler.py:59-72
SuccessDoc(url, url_ja, response, response_ja, crawled_at) ==
    [ crawled_at |-> crawled_at,
      url |-> url,
      status |-> response.status,
      last_modified |-> to_isoformat(response.headers["Last-Modified"]),
      etag |-> response.headers["Etag"],
      html |-> response.body,
      url_ja |-> url_ja,
      status_ja |-> response_ja.status,
      last_modified_ja |-> to_isoformat(response_ja.headers["Last-Modified"]),
      etag_ja |-> response_ja.headers["Etag"],
      html_ja |-> response_ja.body,
      message |-> None ]

\* crawler.py:77-90
FailureDoc(url, url_ja, crawled_at, trace) ==
    [ crawled_at |-> crawled_at,
      url |-> url,
      status |-> None,
      last_modified |-> None,
      etag |-> None,
      html |-> None,
      url_ja |-> url_ja,
      status_ja |-> None,
      last_modified_ja |-> None,
      etag_ja |-> None,
      html_ja |-> None,
      message |-> trace ]

\* What the try statement leaves behind: the value of doc_json and the
\* exception that is still propagating (NoExc when there is none).
Outcome(doc_json, pending) == [doc_json |-> doc_json, pending |-> pending]

\* crawler.py:73-90: the except clause reads the local crawled_at.  When the
\* exception came before line 55 assigned it, the clause itself raises
\* UnboundLocalError and doc_json stays as it was.
ExceptClause(url, url_ja, crawled_at, doc_json, trace) ==
    IF crawled_at = Unbound
    THEN Outcome(doc_json, "UnboundLocalError")
    ELSE Outcome(FailureDoc(url, url_ja, crawled_at, trace), NoExc)

\* fetch without the return inside finally: an exception that is still
\* propagating leaves fetch, and the task ends by raising.
FinallyPropagates(o) ==
    [pc |-> IF o.pending = NoExc THEN "done" ELSE "raised", result |-> o.doc_json]

\* crawler.py:91-92: return inside finally discards an exception that is still
\* propagating; fetch ends by returning doc_json.
FinallyClause(o) == [pc |-> "done", result |-> o.doc_json]

\* The condition with the status of the variant left unchecked
BothOkPrimaryOnly(response, response_ja) == response.status = "200"

\* crawler.py:58: the condition under which the success dict is built
BothOk(response, response_ja) == response.status = "200" /\ response_ja.status = "200"

\* crawler.py:55-90, once both responses are there
TryBody(url, url_ja, response, response_ja) ==
    LET crawled_at == Now
        doc_json == EmptyDict
    IN  IF BothOk(response, response_ja)
        THEN IF BuildExc(response, response_ja) = NoExc
             THEN Outcome(SuccessDoc(url, url_ja, response, response_ja, crawled_at), NoExc)
             ELSE ExceptClause(url, url_ja, crawled_at, doc_json,
                               BuildExc(response, response_ja))
        ELSE Outcome(doc_json, NoExc)

\* crawler.py:53-54 raise: the try body ends before crawled_at is assigned
GetRaised(url, url_ja) == ExceptClause(url, url_ja, Unbound, EmptyDict, "ClientConnectorError")

\* What the origin answered to the two GETs of a fetch, as far as the result
\* can depend on it: "both 200", "primary 200 only" (the variant was answered
\* with another status), "other" (the primary was answered with another
\* status, or a GET raised).
Answer(response, response_ja) ==
    IF response.status # "200" THEN "other"
    ELSE IF response_ja.status = "200" THEN "both 200" ELSE "primary 200 only"

\* A burst_fetch coroutine: where it stands, the GETs it has outstanding, the
\* local response, and what it returned.  As history it keeps the answer of
\* the origin and the first exception raised inside the try body.
NewTask(url) ==
    [ url |-> url, pc |-> "queued", out |-> {}, response |-> NoResponse,
      result |-> EmptyDict, answer |-> None, exc |-> NoExc ]

\* crawler.py:51
UrlJa(url) == Replace(url, <<".", "com", "/">>, <<".", "com", "/", "ja_jp", "/">>)

\* burst_fetch that enters fetch without waiting for a permit
AcquireAtNoWait(i) ==
    /\ call = "running"
    /\ tasks[i].pc = "queued"
    /\ sem' = IF sem > 0 THEN sem - 1 ELSE 0
    /\ tasks' = [tasks EXCEPT ![i].pc = "sleep"]
    /\ UNCHANGED <<call, done, fetch_log>>
    /\ UNCHANGED driverVars
    /\ UNCHANGED outerVars

\* crawler.py:100: async with sem, entered when a permit is free
AcquireAt(i) ==
    /\ call = "running"
    /\ tasks[i].pc = "queued"
    /\ sem > 0
    /\ sem' = sem - 1
    /\ tasks' = [tasks EXCEPT ![i].pc = "sleep"]
    /\ UNCHANGED <<call, done, fetch_log>>
    /\ UNCHANGED driverVars
    /\ UNCHANGED outerVars

\* fetch that issues the two GETs together (asyncio.gather of both)
IssueBothAt(i) ==
    /\ call = "running"
    /\ tasks[i].pc = "sleep"
    /\ tasks' = [tasks EXCEPT ![i].pc = "get", ![i].out = {"primary", "variant"}]
    /\ UNCHANGED <<sem, call, done, fetch_log>>
    /\ UNCHANGED driverVars
    /\ UNCHANGED outerVars

\* crawler.py:44-53: the throttle delay is over, the primary GET is issued
IssuePrimaryAt(i) ==
    /\ call = "running"
    /\ tasks[i].pc = "sleep"
    /\ tasks' = [tasks EXCEPT ![i].pc = "get", ![i].out = {"primary"}]
    /\ UNCHANGED <<sem, call, done, fetch_log>>
    /\ UNCHANGED driverVars
    /\ UNCHANGED outerVars

\* burst_fetch that releases the permit by hand after fetch and only when
\* nothing was raised inside it
EndFetchKeepsPermit(i, o, answer, exc) ==
    /\ tasks' = [tasks EXCEPT ![i] =
                    [@ EXCEPT !.pc = FinallyClause(o).pc, !.result = FinallyClause(o).result,
                              !.out = {}, !.response = NoResponse,
                              !.answer = answer, !.exc = exc]]
    /\ sem' = IF exc = NoExc THEN sem + 1 ELSE sem

\* crawler.py:91-92 and 100-102: fetch ends, burst_fetch leaves async with sem
\* (the permit is released whether fetch returned or raised)
EndFetch(i, o, answer, exc) ==
    /\ tasks' = [tasks EXCEPT ![i] =
                    [@ EXCEPT !.pc = FinallyClause(o).pc, !.result = FinallyClause(o).result,
                              !.out = {}, !.response = NoResponse,
                              !.answer = answer, !.exc = exc]]
    /\ sem' = sem + 1

\* crawler.py:53: session.get(url) raises
PrimaryRaisesAt(i) ==
    /\ call = "running"
    /\ tasks[i].pc = "get"
    /\ EndFetch(i, GetRaised(tasks[i].url, UrlJa(tasks[i].url)),
                "other", "ClientConnectorError")
    /\ UNCHANGED <<call, done, fetch_log>>
    /\ UNCHANGED driverVars
    /\ UNCHANGED outerVars

\* crawler.py:53-54: the primary response arrives, the variant GET is issued
PrimaryResponseAt(i) ==
    /\ call = "running"
    /\ tasks[i].pc = "get"
    /\ \E r \in Responses :
          tasks' = [tasks EXCEPT ![i].pc = "get_ja", ![i].out = {"variant"},
                                 ![i].response = r]
    /\ UNCHANGED <<sem, call, done, fetch_log>>
    /\ UNCHANGED driverVars
    /\ UNCHANGED outerVars

\* crawler.py:54: session.get(url_ja) raises
VariantRaisesAt(i) ==
    /\ call = "running"
    /\ tasks[i].pc = "get_ja"
    /\ EndFetch(i, GetRaised(tasks[i].url, UrlJa(tasks[i].url)),
                "other", "ClientConnectorError")
    /\ UNCHANGED <<call, done, fetch_log>>
    /\ UNCHANGED driverVars
    /\ UNCHANGED outerVars

\* crawler.py:54-92: the variant response arrives and the result is built
VariantResponseAt(i) ==
    /\ call = "running"
    /\ tasks[i].pc = "get_ja"
    /\ \E r \in Responses :
          LET t == tasks[i]
              exc == IF BothOk(t.response, r) THEN BuildExc(t.response, r) ELSE NoExc
          IN  EndFetch(i, TryBody(t.url, UrlJa(t.url), t.response, r),
                       Answer(t.response, r), exc)
    /\ UNCHANGED <<call, done, fetch_log>>
    /\ UNCHANGED driverVars
    /\ UNCHANGED outerVars

\* The history of the fetches of a call
Finished(ts) ==
    { [url |-> ts[k].url, answer |-> ts[k].answer, exc |-> ts[k].exc,
       result |-> ts[k].result] : k \in 1..Len(ts) }

\* crawler.py:116: asyncio.wait returns (done, pending) once every task has
\* ended; done is the set of the tasks, named here by their positions.
WaitReturns ==
    /\ call = "running"
    /\ \A i \in 1..Len(tasks) : tasks[i].pc \in {"done", "raised"}
    /\ call' = "returned"
    /\ done' = 1..Len(tasks)
    /\ fetch_log' = fetch_log \cup Finished(tasks)
    /\ UNCHANGED <<sem, tasks>>
    /\ UNCHANGED driverVars
    /\ UNCHANGED outerVars

Acquire == \E i \in 1..Len(tasks) : AcquireAt(i)
IssuePrimary == \E i \in 1..Len(tasks) : IssuePrimaryAt(i)
PrimaryRaises == \E i \in 1..Len(tasks) : PrimaryRaisesAt(i)
PrimaryResponse == \E i \in 1..Len(tasks) : PrimaryResponseAt(i)
VariantRaises == \E i \in 1..Len(tasks) : VariantRaisesAt(i)
VariantResponse == \E i \in 1..Len(tasks) : VariantResponseAt(i)

\* ------------------------------------------------------------------ crawler.py get_all_docs

\* A sitemap document: well-formed or not, and the children of its root, each
\* child the texts of its sub-elements.
Xml(children) == [wellformed |-> TRUE, children |-> children]
MalformedXml == [wellformed |-> FALSE, children |-> <<>>]

Whitespace == {" ", "\n"}

\* str.strip()
RECURSIVE LStrip(_)
LStrip(s) == IF s # <<>> /\ Head(s) \in Whitespace THEN LStrip(Tail(s)) ELSE s
RECURSIVE RStrip(_)
RStrip(s) ==
    IF s # <<>> /\ s[Len(s)] \in Whitespace THEN RStrip(SubSeq(s, 1, Len(s) - 1)) ELSE s
Strip(s) == LStrip(RStrip(s))

\* crawler.py:171-172: ET.fromstring raises ParseError on a document that is not
\* well-formed, child[0] raises IndexError on an entry without sub-element
ParseSitemapRaises(text) ==
    \/ ~text.wellformed
    \/ \E k \in 1..Len(text.children) : text.children[k] = <<>>

\* crawler.py:171-172
ServiceUrls(text) == [k \in 1..Len(text.children) |-> Strip(text.children[k][1])]

\* crawler.py:175-177
IsDocsUrl(url) == Contains(url, DocsHost)
FilteredServiceUrls(text) == SelectSeq(ServiceUrls(text), IsDocsUrl)

ServiceSitemapUrl == DocsUrl(<<"ec2", "/", "sitemap", ".", "xml">>)
SdkSitemapUrl == DocsUrl(<<"sdk-for-ruby", "/", "sitemap", ".", "xml">>)
ApiReferenceUrl == DocsUrl(<<"ec2", "/", "APIReference", "/", "1">>)
ForeignUrl == <<"https", ":", "/", "/", "example", ".", "com", "/", "ec2", "/", "1">>

\* The entries of a service sitemap that name a page of the canonical host: a
\* guide page, and an API reference page whose text is padded with whitespace
DocEntries == { <<PageUrl(1)>>, <<(<<"\n">> \o ApiReferenceUrl \o <<" ">>)>> }

\* The sitemap documents: one that is not well-formed, and those of at most
\* MaxDocs entries, each entry a page of the one kind the service has, a page
\* of another host, or an entry without sub-element
SitemapTexts ==
    {MalformedXml} \cup
        { Xml(c) : c \in UNION { [1..k -> {d, <<ForeignUrl>>, <<>>}] :
                                    k \in 0..MaxDocs, d \in DocEntries } }

\* What the GET of a service sitemap can answer over the retrying session
\* (redirects are not followed, so a 301 is handed back as it is).
SitemapResponses ==
    { [status_code |-> "200", text |-> t] : t \in SitemapTexts }
        \cup { [status_code |-> c, text |-> Xml(<<>>)] : c \in {"301", "404"} }

\* crawler.py:105-116: get_doc_by_service(urls) creates one burst_fetch per URL
\* and a fresh semaphore
StartCall(urls) ==
    /\ tasks' = [k \in 1..Len(urls) |-> NewTask(urls[k])]
    /\ sem' = SEMAPHORE
    /\ call' = "running"
    /\ done' = {}

\* No GET of a service sitemap has ended yet
NoGet == [at |-> 0, outcome |-> None]

\* What os.environ can hold of the two settings crawler.py requires
Configs == [BUCKET : {None, "my-bucket"}, PREFIX : {None, "aws-doc"}]
SetConfig == [BUCKET |-> "my-bucket", PREFIX |-> "aws-doc"]

\* continue: on to the next service sitemap
Continue ==
    /\ idx' = idx + 1
    /\ dpc' = "loop"

\* crawler.py:143-151: a sitemap that is_ok_url rejects is skipped
LoopSkip ==
    /\ dpc = "loop"
    /\ idx <= Len(sitemap_urls)
    /\ ~is_ok_url(sitemap_urls[idx])
    /\ Continue
    /\ UNCHANGED <<sem, tasks, call, done, sitemap_urls, data_list,
                   filtered_data_list, fetch_log, invoked, last_get>>
    /\ UNCHANGED outerVars

\* crawler.py:153-156: the GET of the service sitemap is issued
LoopGet ==
    /\ dpc = "loop"
    /\ idx <= Len(sitemap_urls)
    /\ is_ok_url(sitemap_urls[idx])
    /\ dpc' = "get"
    /\ UNCHANGED <<sem, tasks, call, done, sitemap_urls, idx, data_list,
                   filtered_data_list, fetch_log, invoked, last_get>>
    /\ UNCHANGED outerVars

\* get_all_docs without the try around s.get: the exception leaves the loop
SitemapRaisesAborts ==
    /\ dpc = "get"
    /\ dpc' = "raised"
    /\ last_get' = [at |-> idx, outcome |-> "raised"]
    /\ UNCHANGED <<sem, tasks, call, done, sitemap_urls, idx, data_list,
                   filtered_data_list, fetch_log, invoked>>
    /\ UNCHANGED outerVars

\* crawler.py:157-161: s.get raises
SitemapRaises ==
    /\ dpc = "get"
    /\ Continue
    /\ last_get' = [at |-> idx, outcome |-> "raised"]
    /\ UNCHANGED <<sem, tasks, call, done, sitemap_urls, data_list,
                   filtered_data_list, fetch_log, invoked>>
    /\ UNCHANGED outerVars

\* crawler.py:163-187: the response of the service sitemap is there
SitemapResponse ==
    /\ dpc = "get"
    /\ \E r \in SitemapResponses :
          /\ IF ParseSitemapRaises(r.text) THEN TRUE
                ELSE Len(data_list) + Len(FilteredServiceUrls(r.text)) <= MaxDocs
          /\ last_get' = [at |-> idx, outcome |-> r.status_code]
          /\ IF r.status_code # "200"
                THEN /\ Continue
                     /\ UNCHANGED <<sem, tasks, call, done, invoked>>
                ELSE IF ParseSitemapRaises(r.text)
                THEN /\ dpc' = "raised"
                     /\ UNCHANGED <<idx, sem, tasks, call, done, invoked>>
                ELSE IF Len(FilteredServiceUrls(r.text)) = 0
                THEN /\ Continue
                     /\ UNCHANGED <<sem, tasks, call, done, invoked>>
                ELSE /\ StartCall(FilteredServiceUrls(r.text))
                     /\ dpc' = "fetching"
                     /\ invoked' = Append(invoked, idx)
                     /\ UNCHANGED idx
    /\ UNCHANGED <<sitemap_urls, data_list, filtered_data_list, fetch_log>>
    /\ UNCHANGED outerVars

\* A permutation of 1..n
Perms(n) == { p \in [1..n -> 1..n] : \A i, j \in 1..n : p[i] = p[j] => i = j }

\* The number of leading tasks of ts that ended by returning
RECURSIVE LeadingDone(_)
LeadingDone(ts) ==
    IF ts = <<>> \/ Head(ts).pc # "done" THEN 0 ELSE 1 + LeadingDone(Tail(ts))

\* get_all_docs that normalizes the results of a service as soon as its fetch
\* is over and accumulates the records
CollectNormalized ==
    /\ dpc = "fetching"
    /\ call = "returned"
    /\ \E p \in Perms(Len(tasks)) :
          LET ds == [k \in 1..Len(tasks) |-> tasks[p[k]]]
              n == LeadingDone(ds)
          IN  /\ data_list' = data_list \o filter_data([k \in 1..n |-> ds[k].result])
              /\ IF n = Len(ds)
                    THEN Continue
                    ELSE dpc' = "raised" /\ UNCHANGED idx
    /\ tasks' = <<>>
    /\ done' = {}
    /\ call' = "idle"
    /\ UNCHANGED <<sem, sitemap_urls, filtered_data_list, fetch_log, invoked, last_get>>
    /\ UNCHANGED outerVars

\* crawler.py:187-191: asyncio.run returns and the results of the done tasks
\* are appended in the iteration order of a set, which the program does not
\* control; d.result() raises again what the task of d raised.
Collect ==
    /\ dpc = "fetching"
    /\ call = "returned"
    /\ \E p \in Perms(Len(tasks)) :
          LET ds == [k \in 1..Len(tasks) |-> tasks[p[k]]]
              n == LeadingDone(ds)
          IN  /\ data_list' = data_list \o [k \in 1..n |-> ds[k].result]
              /\ IF n = Len(ds)
                    THEN Continue
                    ELSE dpc' = "raised" /\ UNCHANGED idx
    /\ tasks' = <<>>
    /\ done' = {}
    /\ call' = "idle"
    /\ UNCHANGED <<sem, sitemap_urls, filtered_data_list, fetch_log, invoked, last_get>>
    /\ UNCHANGED outerVars

\* crawler.py:193-199: the loop is over, the accumulated results are filtered
LoopEnd ==
    /\ dpc = "loop"
    /\ idx > Len(sitemap_urls)
    /\ filtered_data_list' = filter_data(data_list)
    /\ dpc' = "returned"
    /\ UNCHANGED <<sem, tasks, call, done, sitemap_urls, idx, data_list,
                   fetch_log, invoked, last_get>>
    /\ UNCHANGED outerVars

\* The lists of service sitemaps the root sitemap can hold
SitemapUrls == {ServiceSitemapUrl, SdkSitemapUrl}
SitemapUrlLists == [1..NumServices -> SitemapUrls]

\* get_all_docs(sitemap_urls) is entered
Init ==
    /\ sitemap_urls \in SitemapUrlLists
    /\ idx = 1
    /\ dpc = "loop"
    /\ sem = 0
    /\ tasks = <<>>
    /\ call = "idle"
    /\ done = {}
    /\ data_list = <<>>
    /\ filtered_data_list = None
    /\ fetch_log = {}
    /\ invoked = <<>>
    /\ last_get = NoGet
    /\ mpc = "docs"
    /\ config = SetConfig
    /\ uploads = <<>>
    /\ ret = Unbound
    /\ attempts = <<>>
    /\ pure = EmptyDict

Next ==
    \/ LoopSkip
    \/ LoopGet
    \/ SitemapRaises
    \/ SitemapResponse
    \/ Acquire
    \/ IssuePrimary
    \/ PrimaryRaises
    \/ PrimaryResponse
    \/ VariantRaises
    \/ VariantResponse
    \/ WaitReturns
    \/ Collect
    \/ LoopEnd

\* One call of get_all_docs.
Spec == Init /\ [][Next]_vars

\* ------------------------------------------------------------------ one call of get_doc_by_service

\* The batches one call is given: 1..MaxBatch page URLs of the canonical host.
Batches == { [k \in 1..n |-> PageUrl(k)] : n \in 1..MaxBatch }

InitFetch ==
    /\ \E urls \in Batches :
          /\ tasks = [k \in 1..Len(urls) |-> NewTask(urls[k])]
          /\ sem = SEMAPHORE
    /\ call = "running"
    /\ done = {}
    /\ sitemap_urls = <<>>
    /\ idx = 1
    /\ dpc = "fetching"
    /\ data_list = <<>>
    /\ filtered_data_list = None
    /\ fetch_log = {}
    /\ invoked = <<>>
    /\ last_get = NoGet
    /\ mpc = "docs"
    /\ config = SetConfig
    /\ uploads = <<>>
    /\ ret = Unbound
    /\ attempts = <<>>
    /\ pure = EmptyDict

NextFetch ==
    \/ Acquire
    \/ IssuePrimary
    \/ PrimaryRaises
    \/ PrimaryResponse
    \/ VariantRaises
    \/ VariantResponse
    \/ WaitReturns

\* One call of get_doc_by_service on a non-empty batch.
SpecFetch == InitFetch /\ [][NextFetch]_vars

\* ------------------------------------------------------------------ crawler.py main

\* helper.py:17-22: the wrapper calls fn, drops what it returned and returns None
calc_time(fn_ret) == None

\* crawler.py:124-133: the call of s3util.upload_file_with_gzip returns or
\* raises; without a bucket name it can only raise.  Either way the except
\* clause leaves upload_rawdata_to_s3 returning None.
StorageAnswers(cfg) == IF cfg.BUCKET = None THEN {"raised"} ELSE {"stored", "raised"}

\* The root sitemap documents: one sitemap URL per entry
RootSitemapTexts ==
    {MalformedXml} \cup
        { Xml([k \in 1..Len(l) |-> <<l[k]>>]) : l \in SitemapUrlLists }

\* crawler.py:31-37: the module is imported; PREFIX_BASE + "/" + TIMESTAMP
\* raises TypeError when PREFIX is not set, a missing BUCKET goes unnoticed
ImportModule ==
    /\ mpc = "import"
    /\ mpc' = IF config.PREFIX = None THEN "raised" ELSE "main"
    /\ UNCHANGED <<sem, tasks, call, done, fetch_log, config, uploads, ret, attempts, pure>>
    /\ UNCHANGED driverVars

\* crawler.py:203-212: main is entered and issues the GET of the root sitemap
MainGet ==
    /\ mpc = "main"
    /\ mpc' = "root_get"
    /\ UNCHANGED <<sem, tasks, call, done, fetch_log, config, uploads, ret, attempts, pure>>
    /\ UNCHANGED driverVars

\* crawler.py:212: s.get raises; nothing in main catches it
RootRaises ==
    /\ mpc = "root_get"
    /\ mpc' = "raised"
    /\ UNCHANGED <<sem, tasks, call, done, fetch_log, config, uploads, ret, attempts, pure>>
    /\ UNCHANGED driverVars

\* crawler.py:212-220: the root sitemap is there, it is parsed and
\* get_all_docs is entered
RootResponse ==
    /\ mpc = "root_get"
    /\ \E text \in RootSitemapTexts :
          IF ParseSitemapRaises(text)
             THEN mpc' = "raised" /\ UNCHANGED <<sitemap_urls, idx, dpc>>
             ELSE /\ mpc' = "docs"
                  /\ sitemap_urls' = ServiceUrls(text)
                  /\ idx' = 1
                  /\ dpc' = "loop"
    /\ UNCHANGED <<sem, tasks, call, done, fetch_log, config, uploads, ret, attempts, pure>>
    /\ UNCHANGED <<data_list, filtered_data_list, invoked, last_get>>

\* crawler.py:220: get_all_docs raised; nothing in main catches it
DocsRaised ==
    /\ mpc = "docs"
    /\ dpc = "raised"
    /\ mpc' = "raised"
    /\ UNCHANGED <<sem, tasks, call, done, fetch_log, config, uploads, ret, attempts, pure>>
    /\ UNCHANGED driverVars

\* main that hands the list to the storage without looking at its length
DocsReturnedAlwaysUploads ==
    /\ mpc = "docs"
    /\ dpc = "returned"
    /\ mpc' = "upload"
    /\ UNCHANGED <<sem, tasks, call, done, fetch_log, config, uploads, ret, attempts, pure>>
    /\ UNCHANGED driverVars

\* crawler.py:222-229: get_all_docs returned; upload_rawdata_to_s3 is called
\* when the list is not empty, otherwise main ends
DocsReturned ==
    /\ mpc = "docs"
    /\ dpc = "returned"
    /\ IF Len(filtered_data_list) > 0
          THEN mpc' = "upload" /\ UNCHANGED ret
          ELSE mpc' = "done" /\ ret' = calc_time(None)
    /\ UNCHANGED <<sem, tasks, call, done, fetch_log, config, uploads, attempts, pure>>
    /\ UNCHANGED driverVars

\* crawler.py:119-133 and 229: the storage call returned or raised,
\* upload_rawdata_to_s3 returns and main ends
UploadReturns ==
    /\ mpc = "upload"
    /\ \E answer \in StorageAnswers(config) : uploads' = Append(uploads, answer)
    /\ mpc' = "done"
    /\ ret' = calc_time(None)
    /\ UNCHANGED <<sem, tasks, call, done, fetch_log, config, attempts, pure>>
    /\ UNCHANGED driverVars

\* python crawler.py is started
InitMain ==
    /\ config \in Configs
    /\ mpc = "import"
    /\ sitemap_urls = <<>>
    /\ idx = 1
    /\ dpc = "idle"
    /\ sem = 0
    /\ tasks = <<>>
    /\ call = "idle"
    /\ done = {}
    /\ data_list = <<>>
    /\ filtered_data_list = None
    /\ fetch_log = {}
    /\ invoked = <<>>
    /\ last_get = NoGet
    /\ uploads = <<>>
    /\ ret = Unbound
    /\ attempts = <<>>
    /\ pure = EmptyDict

NextMain ==
    \/ ImportModule
    \/ MainGet
    \/ RootRaises
    \/ RootResponse
    \/ LoopSkip
    \/ LoopGet
    \/ SitemapRaises
    \/ SitemapResponse
    \/ Acquire
    \/ IssuePrimary
    \/ PrimaryRaises
    \/ PrimaryResponse
    \/ VariantRaises
    \/ VariantResponse
    \/ WaitReturns
    \/ Collect
    \/ LoopEnd
    \/ DocsRaised
    \/ DocsReturned
    \/ UploadReturns

\* One run of crawler.py.
SpecMain == InitMain /\ [][NextMain]_vars

\* ------------------------------------------------------------------ helper.py url_to_path, path_to_url

\* The characters of a URL: the separators the encoding touches, the character
\* it encodes them with, and a character of any other kind
UrlChars == {":", "/", ".", "_", "a"}

\* The URLs of at most MaxLen characters
UrlStrings == UNION { [1..n -> UrlChars] : n \in 0..MaxLen }

\* A URL is chosen; it is encoded, decoded and encoded again
InitPath ==
    /\ \E url \in UrlStrings :
          pure = [step |-> 0, url |-> url, path |-> <<>>, back |-> <<>>, again |-> <<>>]
    /\ mpc = "idle"
    /\ config = SetConfig
    /\ sitemap_urls = <<>>
    /\ idx = 1
    /\ dpc = "idle"
    /\ sem = 0
    /\ tasks = <<>>
    /\ call = "idle"
    /\ done = {}
    /\ data_list = <<>>
    /\ filtered_data_list = None
    /\ fetch_log = {}
    /\ invoked = <<>>
    /\ last_get = NoGet
    /\ uploads = <<>>
    /\ ret = Unbound
    /\ attempts = <<>>

\* url_to_path(url), and url_to_path of the decoded key
CallUrlToPath ==
    /\ pure.step \in {0, 2}
    /\ pure' = IF pure.step = 0
                  THEN [pure EXCEPT !.step = 1, !.path = url_to_path(pure.url)]
                  ELSE [pure EXCEPT !.step = 3, !.again = url_to_path(pure.back)]
    /\ UNCHANGED <<sem, tasks, call, done, fetch_log, mpc, config, uploads, ret, attempts>>
    /\ UNCHANGED driverVars

\* path_to_url(path)
CallPathToUrl ==
    /\ pure.step = 1
    /\ pure' = [pure EXCEPT !.step = 2, !.back = path_to_url(pure.path)]
    /\ UNCHANGED <<sem, tasks, call, done, fetch_log, mpc, config, uploads, ret, attempts>>
    /\ UNCHANGED driverVars

NextPath ==
    \/ CallUrlToPath
    \/ CallPathToUrl

\* The calls of url_to_path and path_to_url on one URL.
SpecPath == InitPath /\ [][NextPath]_vars

\* ------------------------------------------------------------------ helper.py filter_data

GoodResponse == Resp("200", GoodHeaders, HtmlPage)

\* The pages whose results are handed to filter_data: two guide pages, and
\* pages the content filter names, in upper and mixed case
CliUrl == DocsUrl(<<"CLI", "/", "1">>)
CodeSamplesUrl == DocsUrl(<<"Code-Samples", "/", "1">>)
FilterUrls == {PageUrl(1), PageUrl(2), ApiReferenceUrl, CliUrl, CodeSamplesUrl}

\* What fetch returns: the success dict of a page, the failure dict of a guide
\* page or of an API reference page, and the empty dict
FetchResults ==
    { SuccessDoc(u, UrlJa(u), GoodResponse, GoodResponse, Now) : u \in FilterUrls }
        \cup { FailureDoc(u, UrlJa(u), Now, "KeyError: 'Last-Modified'") :
                  u \in {PageUrl(1), ApiReferenceUrl} }
        \cup { EmptyDict }

\* A list of at most MaxList fetch results is chosen; filter_data is applied
InitFilter ==
    /\ \E dl \in UNION { [1..n -> FetchResults] : n \in 0..MaxList } :
          pure = [step |-> 0, data_list |-> dl, doc_list |-> <<>>]
    /\ mpc = "idle"
    /\ config = SetConfig
    /\ sitemap_urls = <<>>
    /\ idx = 1
    /\ dpc = "idle"
    /\ sem = 0
    /\ tasks = <<>>
    /\ call = "idle"
    /\ done = {}
    /\ data_list = <<>>
    /\ filtered_data_list = None
    /\ fetch_log = {}
    /\ invoked = <<>>
    /\ last_get = NoGet
    /\ uploads = <<>>
    /\ ret = Unbound
    /\ attempts = <<>>

\* filter_data(data_list)
CallFilterData ==
    /\ pure.step = 0
    /\ pure' = [pure EXCEPT !.step = 1, !.doc_list = filter_data(pure.data_list)]
    /\ UNCHANGED <<sem, tasks, call, done, fetch_log, mpc, config, uploads, ret, attempts>>
    /\ UNCHANGED driverVars

NextFilter == CallFilterData

\* One call of filter_data on a list of fetch results.
SpecFilter == InitFilter /\ [][NextFilter]_vars

\* ------------------------------------------------------------------ crawler.py the retrying session

\* crawler.py:21-22: Retry(total=5, backoff_factor=1, status_forcelist=[500, 502, 503, 504])
RetryTotal == 5
status_forcelist == {"500", "502", "503", "504"}

\* What one attempt of a GET can end with
ConnectionError == "connection error"
OtherStatuses == {"200", "301", "404"}

\* Retry.is_exhausted: the count of retries left has fallen below zero
ExhaustedAtZero(total) == total <= 0
Exhausted(total) == total < 0

\* Retry.increment after an attempt that calls for a retry: one retry less is
\* left; the call raises when the count is exhausted, otherwise the request
\* is sent again (after the backoff delay)
Increment ==
    pure' = IF Exhausted(pure.total - 1)
              THEN [pure EXCEPT !.state = "raised", !.total = pure.total - 1]
              ELSE [pure EXCEPT !.total = pure.total - 1]

\* s.get(url) is called: the first attempt is under way
InitRetry ==
    /\ attempts = <<>>
    /\ pure = [state |-> "sending", total |-> RetryTotal, result |-> None]
    /\ mpc = "idle"
    /\ config = SetConfig
    /\ sitemap_urls = <<>>
    /\ idx = 1
    /\ dpc = "get"
    /\ sem = 0
    /\ tasks = <<>>
    /\ call = "idle"
    /\ done = {}
    /\ data_list = <<>>
    /\ filtered_data_list = None
    /\ fetch_log = {}
    /\ invoked = <<>>
    /\ last_get = NoGet
    /\ uploads = <<>>
    /\ ret = Unbound

\* The attempt is answered with a status of status_forcelist
AttemptForcedStatus ==
    /\ pure.state = "sending"
    /\ \E status \in status_forcelist :
          /\ attempts' = Append(attempts, status)
          /\ Increment
    /\ UNCHANGED <<sem, tasks, call, done, fetch_log, mpc, config, uploads, ret>>
    /\ UNCHANGED driverVars

\* The attempt ends with a connection-level error
AttemptConnectionError ==
    /\ pure.state = "sending"
    /\ attempts' = Append(attempts, ConnectionError)
    /\ Increment
    /\ UNCHANGED <<sem, tasks, call, done, fetch_log, mpc, config, uploads, ret>>
    /\ UNCHANGED driverVars

\* The attempt is answered with any other status: the response is returned
AttemptOtherStatus ==
    /\ pure.state = "sending"
    /\ \E status \in OtherStatuses :
          /\ attempts' = Append(attempts, status)
          /\ pure' = [pure EXCEPT !.state = "returned", !.result = status]
    /\ UNCHANGED <<sem, tasks, call, done, fetch_log, mpc, config, uploads, ret>>
    /\ UNCHANGED driverVars

NextRetry ==
    \/ AttemptForcedStatus
    \/ AttemptConnectionError
    \/ AttemptOtherStatus

\* One GET over the session s.
SpecRetry == InitRetry /\ [][NextRetry]_vars

\* ------------------------------------------------------------------ helper.py is_ok_url

\* The words a URL handed to is_ok_url is made of: the markers of ng_list as
\* they are written there, markers in another letter case, and words that
\* are no marker
OkUrlWords ==
    { ng_list[k] : k \in 1..Len(ng_list) }
        \cup {"SDK-FOR-JAVA", "awsjavasdk", "Code-Samples"}
        \cup {"ec2", "s3", "lambda"}

\* The URLs: a sitemap of the canonical host or of another host, the word
\* being the first or the second segment of its path
OkUrls ==
    { DocsUrl(<<w, "/", "sitemap", ".", "xml">>) : w \in OkUrlWords }
        \cup { DocsUrl(<<"latest", "/", w, "/", "sitemap", ".", "xml">>) : w \in OkUrlWords }
        \cup { <<"https", ":", "/", "/", "example", ".", "com", "/", w>> : w \in OkUrlWords }

\* A URL is chosen; is_ok_url is applied
InitOkUrl ==
    /\ \E url \in OkUrls : pure = [step |-> 0, url |-> url, ok |-> FALSE]
    /\ mpc = "idle"
    /\ config = SetConfig
    /\ sitemap_urls = <<>>
    /\ idx = 1
    /\ dpc = "idle"
    /\ sem = 0
    /\ tasks = <<>>
    /\ call = "idle"
    /\ done = {}
    /\ data_list = <<>>
    /\ filtered_data_list = None
    /\ fetch_log = {}
    /\ invoked = <<>>
    /\ last_get = NoGet
    /\ uploads = <<>>
    /\ ret = Unbound
    /\ attempts = <<>>

\* is_ok_url(url)
CallIsOkUrl ==
    /\ pure.step = 0
    /\ pure' = [pure EXCEPT !.step = 1, !.ok = is_ok_url(pure.url)]
    /\ UNCHANGED <<sem, tasks, call, done, fetch_log, mpc, config, uploads, ret, attempts>>
    /\ UNCHANGED driverVars

NextOkUrl == CallIsOkUrl

\* One call of is_ok_url.
SpecOkUrl == InitOkUrl /\ [][NextOkUrl]_vars

\* ------------------------------------------------------------------ s3_download.py main

\* What os.environ can hold of the three settings s3_download.py reads
DownloadConfigs ==
    [BUCKET : {None, "my-bucket"}, PREFIX : {None, "aws-doc"},
     TIMESTAMP : {None, "20200101000000"}]

\* The values of the local filtered_data of main: not yet assigned, the int 1
\* that download_input_from_s3 returns on failure, or a list of documents
NoData == [type |-> "unbound", list |-> <<>>]
One == [type |-> "int", list |-> <<>>]
List(l) == [type |-> "list", list |-> l]

\* for ... in v raises TypeError unless v is a list
Iterable(v) == v.type = "list"

\* s3_download.py:80-91: the documents filter_data can return
DownloadDocs == { [url |-> PageUrl(k), raw_html |-> HtmlPage] : k \in 1..2 }
DownloadLists == UNION { [1..n -> DownloadDocs] : n \in 0..MaxList }

\* s3_download.py:21-24: the module is imported; PREFIX + "/" + TIMESTAMP + "/"
\* raises TypeError when PREFIX or TIMESTAMP is not set
DownloadImport ==
    /\ mpc = "import"
    /\ mpc' = IF config.PREFIX = None \/ config.TIMESTAMP = None THEN "raised" ELSE "main"
    /\ UNCHANGED <<sem, tasks, call, done, fetch_log, config, uploads, ret, attempts, pure>>
    /\ UNCHANGED driverVars

\* s3_download.py:175-181: main returns 1 when a setting is missing; the
\* wrapper of calc_time drops the value
DownloadMain ==
    /\ mpc = "main"
    /\ IF config.BUCKET = None \/ config.PREFIX = None \/ config.TIMESTAMP = None
          THEN mpc' = "done" /\ ret' = calc_time(1)
          ELSE mpc' = "download" /\ UNCHANGED ret
    /\ UNCHANGED <<sem, tasks, call, done, fetch_log, config, uploads, attempts, pure>>
    /\ UNCHANGED driverVars

\* s3_download.py:105-124 and 184: s3util.download_dir reports failure (or
\* gunzip raises): download_input_from_s3 returns 1, which main binds to
\* filtered_data
DownloadFails ==
    /\ mpc = "download"
    /\ pure' = [pure EXCEPT !.filtered_data = One]
    /\ mpc' = "upload_raw"
    /\ UNCHANGED <<sem, tasks, call, done, fetch_log, config, uploads, ret, attempts>>
    /\ UNCHANGED driverVars

\* s3_download.py:105-131 and 184: the download succeeded and filter_data
\* returned the list of documents
DownloadSucceeds ==
    /\ mpc = "download"
    /\ \E l \in DownloadLists : pure' = [pure EXCEPT !.filtered_data = List(l)]
    /\ mpc' = "upload_raw"
    /\ UNCHANGED <<sem, tasks, call, done, fetch_log, config, uploads, ret, attempts>>
    /\ UNCHANGED driverVars

\* s3_download.py:134-148 and 190: upload_rawdata_to_s3(filtered_data); the
\* iteration over filtered_data and the storage call are inside the try
\* block, whose except clause logs and returns
DownloadUploadRawdata ==
    /\ mpc = "upload_raw"
    /\ IF Iterable(pure.filtered_data)
          THEN \E answer \in StorageAnswers(config) :
                  uploads' = Append(uploads, [key |-> <<"merged">>, answer |-> answer])
          ELSE UNCHANGED uploads
    /\ mpc' = "upload_html"
    /\ pure' = [pure EXCEPT !.at = 1]
    /\ UNCHANGED <<sem, tasks, call, done, fetch_log, config, ret, attempts>>
    /\ UNCHANGED driverVars

\* s3_download.py:152 and 194: for data in filtered_data is outside the try
\* block of upload_per_html_to_s3; the TypeError of a value that is no list
\* leaves upload_per_html_to_s3, main and the wrapper of calc_time
DownloadUploadHtmlRaises ==
    /\ mpc = "upload_html"
    /\ ~Iterable(pure.filtered_data)
    /\ mpc' = "raised"
    /\ UNCHANGED <<sem, tasks, call, done, fetch_log, config, uploads, ret, attempts, pure>>
    /\ UNCHANGED driverVars

\* s3_download.py:152-161: one document is uploaded under the key of its
\* URL; an exception of the storage call is logged
DownloadUploadHtml ==
    /\ mpc = "upload_html"
    /\ Iterable(pure.filtered_data)
    /\ pure.at <= Len(pure.filtered_data.list)
    /\ \E answer \in StorageAnswers(config) :
          uploads' = Append(uploads,
                            [key |-> url_to_path(pure.filtered_data.list[pure.at].url),
                             answer |-> answer])
    /\ pure' = [pure EXCEPT !.at = @ + 1]
    /\ UNCHANGED <<sem, tasks, call, done, fetch_log, mpc, config, ret, attempts>>
    /\ UNCHANGED driverVars

\* s3_download.py:194-196: the loop is over, main ends
DownloadFinished ==
    /\ mpc = "upload_html"
    /\ Iterable(pure.filtered_data)
    /\ pure.at > Len(pure.filtered_data.list)
    /\ mpc' = "done"
    /\ ret' = calc_time(None)
    /\ UNCHANGED <<sem, tasks, call, done, fetch_log, config, uploads, attempts, pure>>
    /\ UNCHANGED driverVars

\* python s3_download.py is started
InitDownload ==
    /\ config \in DownloadConfigs
    /\ mpc = "import"
    /\ pure = [filtered_data |-> NoData, at |-> 1]
    /\ sitemap_urls = <<>>
    /\ idx = 1
    /\ dpc = "idle"
    /\ sem = 0
    /\ tasks = <<>>
    /\ call = "idle"
    /\ done = {}
    /\ data_list = <<>>
    /\ filtered_data_list = None
    /\ fetch_log = {}
    /\ invoked = <<>>
    /\ last_get = NoGet
    /\ uploads = <<>>
    /\ ret = Unbound
    /\ attempts = <<>>

NextDownload ==
    \/ DownloadImport
    \/ DownloadMain
    \/ DownloadFails
    \/ DownloadSucceeds
    \/ DownloadUploadRawdata
    \/ DownloadUploadHtmlRaises
    \/ DownloadUploadHtml
    \/ DownloadFinished

\* One run of s3_download.py.
SpecDownload == InitDownload /\ [][NextDownload]_vars

\* ------------------------------------------------------------------ observations

TaskIds == 1..Len(tasks)

\* The tasks that are inside fetch (between entering and leaving async with sem)
InFlight == { i \in TaskIds : tasks[i].pc \in {"sleep", "get", "get_ja"} }

\* The tasks whose fetch has returned
Returned == { i \in TaskIds : tasks[i].pc = "done" }

\* The data fields of a fetch result, for the primary and the variant side
DataFields ==
    {"status", "last_modified", "etag", "html",
     "status_ja", "last_modified_ja", "etag_ja", "html_ja"}

\* d[k] is there and is not None
Present(d, k) == k \in DOMAIN d /\ d[k] # None

\* A successful fetch result: every data field is there
IsSuccess(d) == \A k \in DataFields : Present(d, k)

\* ------------------------------------------------------------------ C1

\* C1: whatever the size of the batch, larger than the capacity included, the
\* number of fetch operations in flight never exceeds SEMAPHORE.
C1_ConcurrencyCeiling == Cardinality(InFlight) <= SEMAPHORE

\* A batch larger than the capacity, with the capacity used up and a task waiting
C1_Witness ==
    /\ Len(tasks) > SEMAPHORE
    /\ Cardinality(InFlight) = SEMAPHORE
    /\ \E i \in TaskIds : tasks[i].pc = "queued"

\* ------------------------------------------------------------------ C2

\* C2: no task of a batch ever ends by raising, whatever fails for its URL:
\* every fetch that ends has returned a dict; a batch that has not returned can
\* always take a step; and the batch returns with one done task per URL, each
\* holding a result.
C2_FetchAllNeverRaises ==
    /\ \A i \in TaskIds : tasks[i].pc # "raised"
    /\ \A i \in Returned : DOMAIN tasks[i].result \in {{}, DOMAIN FailureDoc(<<>>, <<>>, Now, NoExc)}
    /\ call = "running" => ENABLED NextFetch
    /\ call = "returned" => done = TaskIds /\ Returned = TaskIds

\* A returned batch in which one URL failed with an exception, on the primary
\* GET, and another URL got a successful result
C2_Witness ==
    /\ call = "returned"
    /\ \E i, j \in done :
          /\ tasks[i].exc = "ClientConnectorError"
          /\ IsSuccess(tasks[j].result)

\* ------------------------------------------------------------------ C3

\* C3 as stated: a fetch result is successful exactly when both GETs were
\* answered with 200, and in every other result all data fields are null.
C3_SuccessIffBoth200 ==
    \A i \in Returned :
        /\ IsSuccess(tasks[i].result) <=> tasks[i].answer = "both 200"
        /\ tasks[i].answer # "both 200" =>
              \A k \in DataFields : k \in DOMAIN tasks[i].result /\ tasks[i].result[k] = None

\* C3 amended: a fetch result is successful exactly when both GETs were
\* answered with 200 and building the result raised no exception; in every
\* other result each data field is null or absent.
C3_SuccessIffBoth200AndNoException ==
    \A i \in Returned :
        /\ IsSuccess(tasks[i].result) <=>
              (tasks[i].answer = "both 200" /\ tasks[i].exc = NoExc)
        /\ ~IsSuccess(tasks[i].result) =>
              \A k \in DataFields : ~Present(tasks[i].result, k)

\* Both GETs were answered with 200 and the result is a failure, next to a
\* fetch that succeeded
C3_Witness ==
    \E i, j \in Returned :
        /\ tasks[i].answer = "both 200"
        /\ tasks[i].exc # NoExc
        /\ ~IsSuccess(tasks[i].result)
        /\ IsSuccess(tasks[j].result)

\* ------------------------------------------------------------------ C4

\* The fetches in the history from which the record rec can have come: same
\* URL, both GETs answered with 200, a successful result, and the record's
\* raw documents, variant URL and timestamps those of that result.
SourcesOf(rec) ==
    { e \in fetch_log :
        /\ e.url = rec.url
        /\ e.answer = "both 200"
        /\ IsSuccess(e.result)
        /\ e.result.html = rec.raw_html
        /\ e.result.html_ja = rec.raw_html_ja
        /\ e.result.url_ja = rec.url_ja
        /\ e.result.last_modified = rec.last_modified
        /\ e.result.last_modified_ja = rec.last_modified_ja
        /\ e.result.crawled_at = rec.crawled_at }

\* C4: every record get_all_docs returns comes from one fetch whose two GETs
\* were both answered with 200 and whose result holds both bodies; a fetch
\* whose variant was not answered with 200 yields no record.
C4_RecordsOnlyFromBoth200 ==
    dpc = "returned" =>
        /\ \A k \in 1..Len(filtered_data_list) : SourcesOf(filtered_data_list[k]) # {}
        /\ Len(filtered_data_list) <=
              Cardinality({ k \in 1..Len(data_list) : IsSuccess(data_list[k]) })

\* A run that fetched the same kind of page twice: once both GETs were answered
\* with 200, once only the primary; one record is returned.
C4_Witness ==
    /\ dpc = "returned"
    /\ Len(data_list) = 2
    /\ Len(filtered_data_list) = 1
    /\ \E e1, e2 \in fetch_log :
          /\ e1.answer = "both 200"
          /\ e2.answer = "primary 200 only"
          /\ ~UrlFiltered(e2.url)

\* ------------------------------------------------------------------ C5

\* C5: a fetch in which an exception was raised, the primary GET failing
\* included, returns a result whose message is the exception's detail and whose
\* url is the URL requested.
C5_ExceptionGivesFailureResult ==
    \A i \in Returned :
        tasks[i].exc # NoExc =>
            /\ {"message", "url"} \subseteq DOMAIN tasks[i].result
            /\ tasks[i].result["message"] = tasks[i].exc
            /\ tasks[i].result["url"] = tasks[i].url

\* ------------------------------------------------------------------ C6

\* C6: in every fetch result either status and html are both present, or both
\* are absent and message holds a diagnostic; results of non-200 answers included.
C6_StatusHtmlOrMessage ==
    \A i \in Returned :
        \/ Present(tasks[i].result, "status") /\ Present(tasks[i].result, "html")
        \/ /\ ~Present(tasks[i].result, "status")
           /\ ~Present(tasks[i].result, "html")
           /\ Present(tasks[i].result, "message")

\* ------------------------------------------------------------------ C7

\* C7: a returned batch holds, for each URL handed in, exactly one result whose
\* url field is that URL.
C7_OneResultPerUrlByUrlField ==
    call = "returned" =>
        \A i \in TaskIds :
            Cardinality({ j \in done : /\ "url" \in DOMAIN tasks[j].result
                                       /\ tasks[j].result["url"] = tasks[i].url }) = 1

\* ------------------------------------------------------------------ C8

\* C8 as stated: the two GETs of a fetch are issued together, so whenever the
\* primary GET is outstanding the variant GET is outstanding too.
C8_BothOutstandingTogether ==
    \A i \in TaskIds : "primary" \in tasks[i].out => "variant" \in tasks[i].out

\* C8 amended: within a fetch the variant GET is outstanding only after the
\* primary response has arrived, the two GETs are never outstanding together,
\* and the fetch has returned only when none of its GETs is outstanding.
C8_VariantAfterPrimary ==
    \A i \in TaskIds :
        /\ Cardinality(tasks[i].out) <= 1
        /\ "variant" \in tasks[i].out => tasks[i].response # NoResponse
        /\ "primary" \in tasks[i].out => tasks[i].response = NoResponse
        /\ tasks[i].pc = "done" => tasks[i].out = {}

\* The variant GET of a fetch is outstanding while another fetch, whose primary
\* GET raised, has returned
C8_Witness ==
    \E i, j \in TaskIds :
        /\ tasks[i].out = {"variant"}
        /\ tasks[j].pc = "done"
        /\ tasks[j].exc = "ClientConnectorError"

\* ------------------------------------------------------------------ C9

\* The service sitemaps is_ok_url accepts
OkSitemapUrls == { u \in SitemapUrls : is_ok_url(u) }

\* C9 as stated: get_doc_by_service is called once per service and the results
\* of a service are normalized before the fetch of the next one begins, so no
\* raw result of an earlier service is held while a service is fetched.
C9_NormalizedBeforeNextFetch ==
    /\ \A j, k \in 1..Len(invoked) : j < k => invoked[j] < invoked[k]
    /\ dpc = "fetching" => Len(data_list) = 0

\* C9 amended: get_doc_by_service is called at most once per service sitemap,
\* in list order, only for sitemaps is_ok_url accepts and one call at a time;
\* the raw results of all services accumulate in data_list, and filter_data is
\* applied once, to the whole of data_list, after the last service.
C9_NormalizedOnceAfterLoop ==
    /\ \A j, k \in 1..Len(invoked) : j < k => invoked[j] < invoked[k]
    /\ \A k \in 1..Len(invoked) : invoked[k] <= idx /\ sitemap_urls[invoked[k]] \in OkSitemapUrls
    /\ call # "idle" => dpc = "fetching" /\ invoked[Len(invoked)] = idx
    /\ \A k \in 1..Len(data_list) : \E e \in fetch_log : e.result = data_list[k]
    /\ dpc # "returned" => filtered_data_list = None
    /\ dpc = "returned" =>
          /\ idx = Len(sitemap_urls) + 1
          /\ filtered_data_list = filter_data(data_list)

\* The second service is being fetched while the raw result of the first one
\* is still held
C9_Witness ==
    /\ dpc = "fetching"
    /\ invoked = <<1, 2>>
    /\ Len(data_list) = 1
    /\ IsSuccess(data_list[1])
    /\ filtered_data_list = None

\* ------------------------------------------------------------------ C10

\* C10: a service sitemap that cannot be parsed is skipped and the run goes
\* on: get_all_docs never ends by raising.
C10_ParseFailureRecovered == dpc # "raised"

\* ------------------------------------------------------------------ C11

\* C11: in a run of main upload_rawdata_to_s3 is called at most once, only
\* after get_all_docs has returned, with no fetch in flight, and exactly when
\* the filtered list is not empty; with an empty list main ends normally
\* without an upload.
C11_UploadOnceAfterLoopIffNonEmpty ==
    /\ Len(uploads) <= 1
    /\ (mpc = "upload" \/ Len(uploads) = 1) =>
          /\ dpc = "returned"
          /\ call = "idle"
          /\ InFlight = {}
          /\ Len(filtered_data_list) > 0
    /\ mpc = "done" =>
          /\ dpc = "returned"
          /\ Len(uploads) = 1 <=> Len(filtered_data_list) > 0
          /\ ret = None

\* A run that fetched the pages of two services and ended after one upload
C11_Witness ==
    /\ mpc = "done"
    /\ Len(invoked) = 2
    /\ uploads = <<"stored">>

\* ------------------------------------------------------------------ C12

\* A GET is outstanding: of the root sitemap, of a service sitemap, or of a page
NetworkActivity ==
    \/ mpc = "root_get"
    \/ dpc = "get"
    \/ \E i \in TaskIds : tasks[i].out # {}

\* C12: a run in which a required setting (bucket or prefix) is missing
\* issues no GET at all, of a sitemap or of a page.
C12_NoNetworkWithoutConfig ==
    (config.BUCKET = None \/ config.PREFIX = None) => ~NetworkActivity

\* ------------------------------------------------------------------ C13

\* C13: decoding the key of a URL gives back the URL:
\* path_to_url(url_to_path(url)) = url.
C13_DecodeInvertsEncode == pure.step >= 2 => pure.back = pure.url

\* ------------------------------------------------------------------ C14

\* C14: encoding the decoded key gives back the key:
\* url_to_path(path_to_url(url_to_path(url))) = url_to_path(url), whatever
\* separators stand next to each other in the URL.
C14_EncodeDecodeEncode == pure.step = 3 => pure.again = pure.path

\* A URL with a slash next to a dot, which is not decoded to itself, has been
\* encoded, decoded and encoded again
C14_Witness ==
    /\ pure.step = 3
    /\ pure.url = <<"a", "/", ".", "a">>
    /\ pure.back # pure.url

\* ------------------------------------------------------------------ C15

\* dict.get
Get(d, k) == IF k \in DOMAIN d THEN d[k] ELSE None

\* A fetch result the normalizer has to drop: the failure indicator is set, a
\* body is absent, or the primary status is not 200
MustDrop(d) ==
    \/ Get(d, "message") # None
    \/ Get(d, "html") = None
    \/ Get(d, "html_ja") = None
    \/ Get(d, "status") # "200"

\* The record rec is made of the fetch result d
MadeOf(rec, d) ==
    /\ {"url", "url_ja", "html", "html_ja"} \subseteq DOMAIN d
    /\ rec.url = d["url"]
    /\ rec.url_ja = d["url_ja"]
    /\ rec.raw_html = d["html"]
    /\ rec.raw_html_ja = d["html_ja"]

\* C15: no fetch result whose message is set, whose primary or variant body
\* is absent or whose primary status is not 200 produces a record: every
\* record filter_data returns is made of an input that is none of these, and
\* there are no more records than such inputs.
C15_FailuresNeverBecomeRecords ==
    pure.step = 1 =>
        /\ \A j \in 1..Len(pure.doc_list) :
              \E k \in 1..Len(pure.data_list) :
                  /\ ~MustDrop(pure.data_list[k])
                  /\ MadeOf(pure.doc_list[j], pure.data_list[k])
        /\ Len(pure.doc_list) <=
              Cardinality({ k \in 1..Len(pure.data_list) : ~MustDrop(pure.data_list[k]) })

\* A failure dict, an empty dict and a success dict were filtered: one record
C15_Witness ==
    /\ pure.step = 1
    /\ Len(pure.data_list) = 3
    /\ pure.data_list[1] = FailureDoc(PageUrl(1), UrlJa(PageUrl(1)), Now, "KeyError: 'Last-Modified'")
    /\ pure.data_list[2] = EmptyDict
    /\ ~MustDrop(pure.data_list[3])
    /\ Len(pure.doc_list) = 1

\* ------------------------------------------------------------------ C16

\* The latest GET of a service sitemap raised or was answered with a status
\* other than 200
SitemapGetFailed == last_get.outcome \in {"raised", "301", "404"}

\* C16: after the GET of a service sitemap raised or was answered with a
\* status other than 200 (a 3xx included), get_all_docs has not ended by
\* raising, no page of that service is fetched, and the loop has gone on past
\* it in list order: only sitemaps is_ok_url rejects lie between it and the
\* position of the loop.
C16_FailedSitemapSkipped ==
    SitemapGetFailed =>
        /\ dpc \in {"loop", "get", "returned"}
        /\ call = "idle"
        /\ tasks = <<>>
        /\ \A k \in 1..Len(invoked) : invoked[k] # last_get.at
        /\ idx > last_get.at
        /\ \A j \in (last_get.at + 1)..(idx - 1) : sitemap_urls[j] \notin OkSitemapUrls

\* The first service sitemap was answered with a redirect, and the GET of the
\* second one is outstanding
C16_Witness ==
    /\ last_get = [at |-> 1, outcome |-> "301"]
    /\ idx = 2
    /\ dpc = "get"

\* ------------------------------------------------------------------ C17

\* The outcomes after which the session sends the request again
CallsForRetry == status_forcelist \cup {ConnectionError}

HasMarkerAnyCase(url) ==
    \E i \in 1..Len(url), k \in 1..Len(ng_list) : LowerWord(url[i]) = LowerWord(ng_list[k])

\* C18: is_ok_url returns false for every URL that holds a deny-list marker
\* in any letter case, and true for every URL of the canonical host that
\* holds none.
C18_DenyListAnyCase ==
    pure.step = 1 =>
        /\ HasMarkerAnyCase(pure.url) => pure.ok = FALSE
        /\ (IsDocsUrl(pure.url) /\ ~HasMarkerAnyCase(pure.url)) => pure.ok = TRUE

\* ------------------------------------------------------------------ C19

\* The URL holds 'apireference', '/cli/' or '/code-samples/' in some letter
\* case
ContentMarked(url) ==
    \E i \in 1..Len(url) :
        \/ LowerWord(url[i]) = "apireference"
        \/ /\ i + 2 <= Len(url)
           /\ url[i] = "/"
           /\ LowerWord(url[i + 1]) \in {"cli", "code-samples"}
           /\ url[i + 2] = "/"

\* The records are made of inputs taken in the order of the input list
InInputOrder(doc_list, dl) ==
    \E f \in [1..Len(doc_list) -> 1..Len(dl)] :
        /\ \A i, j \in 1..Len(doc_list) : i < j => f[i] < f[j]
        /\ \A j \in 1..Len(doc_list) : MadeOf(doc_list[j], dl[f[j]])

\* C19: no record filter_data returns has a primary URL that holds
\* 'apireference', '/cli/' or '/code-samples/' in any letter case, whatever
\* the fetch outcome of the input was, and the records it returns are in the
\* relative order of the inputs they are made of.
C19_ContentFilterAndOrder ==
    pure.step = 1 =>
        /\ \A j \in 1..Len(pure.doc_list) : ~ContentMarked(pure.doc_list[j].url)
        /\ InInputOrder(pure.doc_list, pure.data_list)

\* The fetch result d is the success dict of the page u
IsSuccessOf(d, u) ==
    /\ {"url", "status", "message"} \subseteq DOMAIN d
    /\ d["url"] = u
    /\ d["status"] = "200"
    /\ d["message"] = None

\* A fetched CLI page in upper case and two guide pages were filtered: the
\* two guide pages remain, in their order
C19_Witness ==
    /\ pure.step = 1
    /\ Len(pure.data_list) = 3
    /\ IsSuccessOf(pure.data_list[1], CliUrl)
    /\ IsSuccessOf(pure.data_list[2], PageUrl(1))
    /\ IsSuccessOf(pure.data_list[3], PageUrl(2))
    /\ Len(pure.doc_list) = 2
    /\ pure.doc_list[1].url = PageUrl(1)
    /\ pure.doc_list[2].url = PageUrl(2)

\* ------------------------------------------------------------------ C20

\* The run ended although the bucket is not set or the storage call raised
EndedAfterFailure ==
    /\ mpc = "done"
    /\ \/ config.BUCKET = None
       \/ \E k \in 1..Len(uploads) : uploads[k] = "raised"

\* C20: main, wrapped by calc_time, returns a non-zero status when required
\* configuration is absent or the storage handoff fails, and returns the
\* zero/empty status only when the run completed.
C20_NonZeroStatusOnFailure ==
    /\ EndedAfterFailure => ret \notin {None, Unbound}
    /\ ret = None => (mpc = "done" /\ ~EndedAfterFailure)

\* ------------------------------------------------------------------ C22

\* One call of get_doc_by_service under a fair event loop and an origin whose
\* requests settle: a waiter gets a free permit, a sleep ends, an outstanding
\* GET gets its response or raises, and asyncio.wait returns once every task
\* has ended.
SpecFetchFair ==
    /\ InitFetch
    /\ [][NextFetch]_vars
    /\ WF_vars(Acquire)
    /\ WF_vars(IssuePrimary)
    /\ WF_vars(PrimaryRaises \/ PrimaryResponse)
    /\ WF_vars(VariantRaises \/ VariantResponse)
    /\ WF_vars(WaitReturns)

\* A GET of a task is issued only by a task that holds a permit and is in
\* its throttle delay
FirstRequestAfterDelay ==
    \A i \in TaskIds :
        (tasks[i].pc = "queued" /\ i \in DOMAIN tasks') => tasks'[i].out = {}

\* C22: under fair scheduling and requests that settle, get_doc_by_service
\* terminates for every non-empty batch, also one larger than the capacity:
\* a permit is held exactly by the fetches in flight, a queued fetch passes
\* through the throttle delay before its first GET, and the call eventually
\* returns, for good, with every fetch of the batch ended (so none was left
\* waiting for a permit) and every permit free.
C22_BatchTerminates ==
    /\ [](sem + Cardinality(InFlight) = SEMAPHORE)
    /\ [][FirstRequestAfterDelay]_vars
    /\ <>[](/\ call = "returned"
            /\ sem = SEMAPHORE
            /\ \A i \in TaskIds : tasks[i].pc = "done")

\* A batch larger than the capacity has returned with every permit free,
\* after fetches that ended by success, by a non-200 answer and by an
\* exception
C22_Witness ==
    /\ call = "returned"
    /\ Len(tasks) > SEMAPHORE
    /\ sem = SEMAPHORE
    /\ \E i, j, k \in TaskIds :
          /\ IsSuccess(tasks[i].result)
          /\ tasks[j].answer = "other" /\ tasks[j].exc = NoExc
          /\ tasks[k].exc = "ClientConnectorError"

\* ------------------------------------------------------------------ C21

\* The page GETs that are outstanding, by task and side
PageRequests ==
    { q \in TaskIds \X {"primary", "variant"} : q[2] \in tasks[q[1]].out }

\* The GETs of the root sitemap and of a service sitemap that are outstanding
SitemapRequests ==
    (IF mpc = "root_get" THEN {"root"} ELSE {}) \cup (IF dpc = "get" THEN {"service"} ELSE {})

\* The number of HTTP requests that are outstanding
Outstanding == Cardinality(SitemapRequests) + Cardinality(PageRequests)

C23_FailedDownloadHandled ==
    pure.filtered_data = One => (uploads = <<>> /\ mpc # "raised")

====
